---- MODULE Spec2Model ----
(***************************************************************************)
(* Model of PyLog's Logger (src/logger.py).                                *)
(*                                                                         *)
(* Strings are sequences of code points (27 = ESC, 10 = newline,           *)
(* 32 = space).  The log file logs.txt is the record `logs`                *)
(* ([exists, content]); the console is `stdout`, the sequence of the       *)
(* strings written by print (each ends with a newline).                    *)
(***************************************************************************)
EXTENDS Integers, Sequences, FiniteSets, TLC

VARIABLES
  log_level,    \* self.log_level
  log_to_file,  \* self._log_to_file
  date,         \* self._date: [day, month, year]
  logs,         \* the file logs.txt: [exists, content]
  stdout,       \* the strings written to the console, in order
  last,         \* the most recent call: its name, arguments, what the file
                \* system and console did (io), the exception it raised, how
                \* often it opened the file, and the fields and file before it
  remaining,    \* calls the caller still makes
  established   \* the severity given by the most recent of construction,
                \* a successful set_level, and reset

vars == <<log_level, log_to_file, date, logs, stdout, last, remaining, established>>

(* Number of calls made on the logger in one run. *)
MaxCalls == 2

(* Number of calls in a run during which the file system or console may fail. *)
MaxCallsIO == 1

-----------------------------------------------------------------------------
(* class LogLevel: the three members of the enumeration. *)
LogLevel == {"Info", "Warning", "Error"}

(* Values of other types that Python lets a caller pass where a LogLevel   *)
(* is expected (None, the int 2, the str 'info'); none equals a member.    *)
Untyped == {"None", "int_2", "str_info"}

(* The escape codes set in __init__. *)
RESET == <<27, 91, 48, 109>>
RED == <<27, 91, 48, 59, 51, 49, 109>>
BLUE == <<27, 91, 48, 59, 51, 54, 109>>
YELLOW == <<27, 91, 48, 59, 51, 51, 109>>
BOLD == <<27, 91, 49, 109>>

(* __log_level_to_string with an explicit log_level argument. *)
log_level_to_string(level) ==
  CASE level = "Info" -> <<105, 110, 102, 111>>
    [] level = "Warning" -> <<119, 97, 114, 110, 105, 110, 103>>
    [] level = "Error" -> <<101, 114, 114, 111, 114>>
    [] OTHER -> <<105, 110, 102, 111>>

(* str.upper on ASCII text. *)
upper(s) ==
  [i \in 1..Len(s) |-> IF s[i] >= 97 /\ s[i] <= 122 THEN s[i] - 32 ELSE s[i]]

(* str(n) for a natural number n: its decimal digits. *)
RECURSIVE str(_)
str(n) ==
  IF n < 10 THEN <<48 + n>> ELSE str(n \div 10) \o <<48 + (n % 10)>>

(* __format_date: dd/mm/yyyy of self._date. *)
format_date ==
  LET day == IF date.day < 10 THEN <<48>> \o str(date.day) ELSE str(date.day)
      month == IF date.month < 10 THEN <<48>> \o str(date.month) ELSE str(date.month)
  IN day \o <<47>> \o month \o <<47>> \o str(date.year)

(* The character classes of the pattern in __strip_format. *)
EscFinal == (64..90) \cup (92..95)
CsiParam == 48..63
CsiIntermediate == 32..47
CsiFinal == 64..126

(* Number of consecutive elements of s, from position i on, that are in S. *)
RECURSIVE Run(_, _, _)
Run(s, i, S) ==
  IF i <= Len(s) /\ s[i] \in S THEN 1 + Run(s, i + 1, S) ELSE 0

(* Length of the match of \x1B(?:[@-Z\\-_]|\[[0-?]*[ -/]*[@-~]) at position *)
(* i of s, 0 when the pattern does not match there.                        *)
MatchLen(s, i) ==
  IF s[i] # 27 \/ i + 1 > Len(s) THEN 0
  ELSE IF s[i + 1] \in EscFinal THEN 2
  ELSE IF s[i + 1] # 91 THEN 0
  ELSE LET p == Run(s, i + 2, CsiParam)
           q == Run(s, i + 2 + p, CsiIntermediate)
           f == i + 2 + p + q
       IN IF f <= Len(s) /\ s[f] \in CsiFinal THEN f - i + 1 ELSE 0

RECURSIVE StripFrom(_, _)
StripFrom(s, i) ==
  IF i > Len(s) THEN <<>>
  ELSE LET n == MatchLen(s, i)
       IN IF n > 0 THEN StripFrom(s, i + n) ELSE <<s[i]>> \o StripFrom(s, i + 1)

(* __strip_format: escape.sub('', input_string). *)
strip_format(input_string) == StripFrom(input_string, 1)

(* A faulty variant of get_format: the label of self.log_level, as                *)
(* __log_level_to_string gives without an argument.                        *)
get_format_current_level(color, level) ==
  color \o BOLD \o <<91>> \o format_date \o <<93, 32>>
    \o upper(log_level_to_string(log_level)) \o <<58>> \o RESET \o color

(* __get_format: color BOLD [date] LEVEL: RESET color. *)
get_format(color, level) ==
  color \o BOLD \o <<91>> \o format_date \o <<93, 32>>
    \o upper(log_level_to_string(level)) \o <<58>> \o RESET \o color

(* print(x): x and a newline, written to the console. *)
print(x) == x \o <<10>>

(* The result of a call that touched neither the file nor the console. *)
Untouched == [logs |-> logs, stdout |-> stdout, raised |-> "None", opens |-> 0]

(* A faulty variant of write_to_file: mode 'w' instead of 'a+'. *)
write_to_file_truncating(format, io, k) ==
  LET text == strip_format(format) \o <<10>>
  IN CASE io = "open_fail" ->
            [logs |-> logs, raised |-> "FileError", opens |-> 1]
       [] io = "write_fail" ->
            [logs |-> [exists |-> TRUE, content |-> SubSeq(text, 1, k)],
             raised |-> "FileError", opens |-> 1]
       [] OTHER ->
            [logs |-> [exists |-> TRUE, content |-> text],
             raised |-> "None", opens |-> 1]

(* A faulty variant of write_to_file: an except clause that ignores the error. *)
write_to_file_swallowing(format, io, k) ==
  LET text == strip_format(format) \o <<10>>
  IN CASE io = "open_fail" ->
            [logs |-> logs, raised |-> "None", opens |-> 1]
       [] io = "write_fail" ->
            [logs |-> [exists |-> TRUE, content |-> logs.content \o SubSeq(text, 1, k)],
             raised |-> "None", opens |-> 1]
       [] OTHER ->
            [logs |-> [exists |-> TRUE, content |-> logs.content \o text],
             raised |-> "None", opens |-> 1]

(* __write_to_file: open logs.txt in mode 'a+' and write the stripped text *)
(* and a newline.  io is what the file system does: "open_fail" (open      *)
(* raises, nothing changes), "write_fail" (the file is open, hence exists, *)
(* k code points reach it and the write raises), anything else: all of    *)
(* the text is appended.  One open per call; no except clause.            *)
write_to_file(format, io, k) ==
  LET text == strip_format(format) \o <<10>>
  IN CASE io = "open_fail" ->
            [logs |-> logs, raised |-> "FileError", opens |-> 1]
       [] io = "write_fail" ->
            [logs |-> [exists |-> TRUE, content |-> logs.content \o SubSeq(text, 1, k)],
             raised |-> "FileError", opens |-> 1]
       [] OTHER ->
            [logs |-> [exists |-> TRUE, content |-> logs.content \o text],
             raised |-> "None", opens |-> 1]

(* A faulty variant of emit: the file is written whatever _log_to_file is. *)
emit_ignoring_flag(color, level, format, io, k) ==
  LET w == write_to_file(format, io, k)
      line == get_format(color, level) \o <<32>> \o format
  IN IF w.raised # "None"
       THEN [logs |-> w.logs, stdout |-> stdout, raised |-> w.raised, opens |-> w.opens]
     ELSE IF io = "print1_fail"
       THEN [logs |-> w.logs, stdout |-> stdout, raised |-> "ConsoleError", opens |-> w.opens]
     ELSE IF io = "print2_fail"
       THEN [logs |-> w.logs, stdout |-> Append(stdout, print(line)),
             raised |-> "ConsoleError", opens |-> w.opens]
     ELSE [logs |-> w.logs, stdout |-> stdout \o <<print(line), print(RESET)>>,
           raised |-> "None", opens |-> w.opens]

(* A faulty variant of emit: the two prints come before the file. *)
emit_console_first(color, level, format, io, k) ==
  LET line == get_format(color, level) \o <<32>> \o format
      w == IF log_to_file THEN write_to_file(format, io, k)
           ELSE [logs |-> logs, raised |-> "None", opens |-> 0]
  IN IF io = "print1_fail"
       THEN [logs |-> logs, stdout |-> stdout, raised |-> "ConsoleError", opens |-> 0]
     ELSE IF io = "print2_fail"
       THEN [logs |-> logs, stdout |-> Append(stdout, print(line)),
             raised |-> "ConsoleError", opens |-> 0]
     ELSE [logs |-> w.logs, stdout |-> stdout \o <<print(line), print(RESET)>>,
           raised |-> w.raised, opens |-> w.opens]

(* The body shared by info, warning and error: the file first (when       *)
(* _log_to_file), then print(line), then print(RESET).  An exception ends *)
(* the call where it is raised.                                           *)
emit(color, level, format, io, k) ==
  LET w == IF log_to_file THEN write_to_file(format, io, k)
           ELSE [logs |-> logs, raised |-> "None", opens |-> 0]
      line == get_format(color, level) \o <<32>> \o format
  IN IF w.raised # "None"
       THEN [logs |-> w.logs, stdout |-> stdout, raised |-> w.raised, opens |-> w.opens]
     ELSE IF io = "print1_fail"
       THEN [logs |-> w.logs, stdout |-> stdout, raised |-> "ConsoleError", opens |-> w.opens]
     ELSE IF io = "print2_fail"
       THEN [logs |-> w.logs, stdout |-> Append(stdout, print(line)),
             raised |-> "ConsoleError", opens |-> w.opens]
     ELSE [logs |-> w.logs, stdout |-> stdout \o <<print(line), print(RESET)>>,
           raised |-> "None", opens |-> w.opens]

info(format, io, k) == emit(BLUE, "Info", format, io, k)

warning(format, io, k) == emit(YELLOW, "Warning", format, io, k)

error(format, io, k) == emit(RED, "Error", format, io, k)

(* A faulty variant of log: the Warning case calls error. *)
log_misrouted(format, io, k) ==
  CASE log_level = "Info" -> info(format, io, k)
    [] log_level = "Warning" -> error(format, io, k)
    [] log_level = "Error" -> error(format, io, k)
    [] OTHER -> Untouched

(* log: match self.log_level; case other: pass. *)
log(format, io, k) ==
  CASE log_level = "Info" -> info(format, io, k)
    [] log_level = "Warning" -> warning(format, io, k)
    [] log_level = "Error" -> error(format, io, k)
    [] OTHER -> Untouched

(* A faulty variant of set_level's test: no validation. *)
set_level_accepts_all(v) == FALSE

(* set_level's test: log_level not in [Info, Warning, Error]. *)
set_level_rejects(v) == v \notin {"Info", "Warning", "Error"}

(* A faulty variant of clean_logs: the file is emptied, not removed. *)
clean_logs_truncating == [exists |-> TRUE, content |-> <<>>]

(* clean_logs: os.remove when os.path.exists. *)
clean_logs ==
  IF logs.exists THEN [exists |-> FALSE, content |-> <<>>] ELSE logs

-----------------------------------------------------------------------------
(* Inputs and environment. *)

(* Messages: "a", "b", ESC[1m a (a complete sequence), a LF b (a line      *)
(* break), ESC[1 ESC M (a sequence with no final byte, then a two-byte    *)
(* sequence).                                                             *)
Messages ==
  {<<97>>, <<98>>, <<27, 91, 49, 109, 97>>, <<97, 10, 98>>, <<27, 91, 49, 27, 77>>}

(* The date captured by datetime.now() at construction. *)
Dates ==
  {[day |-> 5, month |-> 3, year |-> 2024], [day |-> 25, month |-> 12, year |-> 2023]}

(* logs.txt when the logger is constructed: absent, or left by an earlier run. *)
InitFiles ==
  {[exists |-> FALSE, content |-> <<>>], [exists |-> TRUE, content |-> <<120, 10>>]}

(* What the file system and the console may do during one emit call. *)
IOOutcomes == {"ok", "open_fail", "write_fail", "print1_fail", "print2_fail"}

(* An outcome is possible only where the call reaches the operation that  *)
(* fails; k is the part of the text a failed write leaves in the file.    *)
IOFeasible(format, io, k) ==
  CASE io = "open_fail" -> log_to_file /\ k = 0
    [] io = "write_fail" -> log_to_file /\ k <= Len(strip_format(format))
    [] OTHER -> k = 0

Partial(format) == 0..Len(strip_format(format))

(* The fields and the file as a call finds them. *)
Before == [log_level |-> log_level, log_to_file |-> log_to_file, logs |-> logs]

-----------------------------------------------------------------------------
(* Logger(log_level, log_to_file), followed by n calls. *)
Constructed(n) ==
  /\ log_level \in LogLevel \cup {"None"}
  /\ log_to_file \in BOOLEAN
  /\ date \in Dates
  /\ logs \in InitFiles
  /\ stdout = <<>>
  /\ last = [op |-> "init", msg |-> <<>>, level |-> "None", io |-> "ok",
             raised |-> "None", opens |-> 0, before |-> Before]
  /\ remaining = n
  /\ established = log_level

Init == Constructed(MaxCalls)

InitIO == Constructed(MaxCallsIO)

(* The effect of an emit call whose result is r. *)
Emitted(op, format, io, r) ==
  /\ remaining > 0
  /\ remaining' = remaining - 1
  /\ logs' = r.logs
  /\ stdout' = r.stdout
  /\ last' = [op |-> op, msg |-> format, level |-> "None", io |-> io,
              raised |-> r.raised, opens |-> r.opens, before |-> Before]
  /\ UNCHANGED <<log_level, log_to_file, date, established>>

(* A call that touches neither the file nor the console. *)
Called(op, level, raised) ==
  /\ remaining > 0
  /\ remaining' = remaining - 1
  /\ last' = [op |-> op, msg |-> <<>>, level |-> level, io |-> "ok",
              raised |-> raised, opens |-> 0, before |-> Before]

Info(format, io, k) ==
  /\ IOFeasible(format, io, k)
  /\ Emitted("info", format, io, info(format, io, k))

Warning(format, io, k) ==
  /\ IOFeasible(format, io, k)
  /\ Emitted("warning", format, io, warning(format, io, k))

Error(format, io, k) ==
  /\ IOFeasible(format, io, k)
  /\ Emitted("error", format, io, error(format, io, k))

Log(format, io, k) ==
  /\ IOFeasible(format, io, k)
  /\ io # "ok" => log_level \in LogLevel
  /\ Emitted("log", format, io, log(format, io, k))

(* A faulty variant of Reset: the level is left as it is. *)
Reset_keeping_level ==
  /\ Called("reset", "None", "None")
  /\ established' = "Info"
  /\ UNCHANGED <<log_level, log_to_file, date, logs, stdout>>

Reset ==
  /\ Called("reset", "None", "None")
  /\ log_level' = "Info"
  /\ established' = "Info"
  /\ UNCHANGED <<log_to_file, date, logs, stdout>>

SetLevel(v) ==
  /\ IF set_level_rejects(v)
       THEN /\ Called("set_level", v, "ValueError")
            /\ UNCHANGED <<log_level, established>>
       ELSE /\ Called("set_level", v, "None")
            /\ log_level' = v
            /\ established' = v
  /\ UNCHANGED <<log_to_file, date, logs, stdout>>

EnableFileLogging ==
  /\ Called("enable_file_logging", "None", "None")
  /\ log_to_file' = TRUE
  /\ UNCHANGED <<log_level, date, logs, stdout, established>>

DisableFileLogging ==
  /\ Called("disable_file_logging", "None", "None")
  /\ log_to_file' = FALSE
  /\ UNCHANGED <<log_level, date, logs, stdout, established>>

CleanLogs ==
  /\ Called("clean_logs", "None", "None")
  /\ logs' = clean_logs
  /\ UNCHANGED <<log_level, log_to_file, date, stdout, established>>

(* Calls whose file and console operations all succeed. *)
Next ==
  \/ \E m \in Messages : Info(m, "ok", 0)
  \/ \E m \in Messages : Warning(m, "ok", 0)
  \/ \E m \in Messages : Error(m, "ok", 0)
  \/ \E m \in Messages : Log(m, "ok", 0)
  \/ Reset
  \/ \E v \in LogLevel \cup Untyped : SetLevel(v)
  \/ EnableFileLogging
  \/ DisableFileLogging
  \/ CleanLogs

Spec == Init /\ [][Next]_vars

(* Calls during which the file system or the console may fail. *)
NextIO ==
  \/ \E m \in Messages, io \in IOOutcomes : \E k \in Partial(m) : Info(m, io, k)
  \/ \E m \in Messages, io \in IOOutcomes : \E k \in Partial(m) : Warning(m, io, k)
  \/ \E m \in Messages, io \in IOOutcomes : \E k \in Partial(m) : Error(m, io, k)
  \/ \E m \in Messages, io \in IOOutcomes : \E k \in Partial(m) : Log(m, io, k)
  \/ Reset
  \/ \E v \in LogLevel \cup Untyped : SetLevel(v)
  \/ EnableFileLogging
  \/ DisableFileLogging
  \/ CleanLogs

SpecIO == InitIO /\ [][NextIO]_vars

-----------------------------------------------------------------------------
(* Vocabulary of the properties.  In an action formula the unprimed        *)
(* variables are the state a call finds, the primed ones the state it      *)
(* leaves, and last' describes that call.                                  *)

EmitOps == {"info", "warning", "error", "log"}

(* The step is a call of info, warning or error, or a call of log made     *)
(* while the current severity is one of the three levels.                  *)
EmitCall ==
  /\ last'.op \in EmitOps
  /\ last'.op = "log" => log_level \in LogLevel

(* The severity at which a call of op emits. *)
SeverityOf(op) ==
  CASE op = "info" -> "Info"
    [] op = "warning" -> "Warning"
    [] op = "error" -> "Error"
    [] OTHER -> log_level

(* The console colour and the label of each severity, as section 6 of the  *)
(* specification lists them.                                               *)
ColorOf(level) ==
  CASE level = "Info" -> <<27, 91, 48, 59, 51, 54, 109>>
    [] level = "Warning" -> <<27, 91, 48, 59, 51, 51, 109>>
    [] level = "Error" -> <<27, 91, 48, 59, 51, 49, 109>>

LabelOf(level) ==
  CASE level = "Info" -> <<73, 78, 70, 79>>
    [] level = "Warning" -> <<87, 65, 82, 78, 73, 78, 71>>
    [] level = "Error" -> <<69, 82, 82, 79, 82>>

(* 05/03/2024 and 25/12/2023, the texts of the two dates of Dates. *)
DateText ==
  IF date.day = 5
    THEN <<48, 53, 47, 48, 51, 47, 50, 48, 50, 52>>
    ELSE <<50, 53, 47, 49, 50, 47, 50, 48, 50, 51>>

(* {color}{bold}[{date}] {LEVEL}:{reset}{color} {message} *)
ConsoleLine(level, m) ==
  ColorOf(level) \o <<27, 91, 49, 109, 91>> \o DateText \o <<93, 32>> \o LabelOf(level)
    \o <<58, 27, 91, 48, 109>> \o ColorOf(level) \o <<32>> \o m

(* The two console writes of a call that emits m at level. *)
ConsoleWrites(level, m) ==
  <<ConsoleLine(level, m) \o <<10>>, <<27, 91, 48, 109, 10>>>>

(* [{date}] {LEVEL}: {message}, the message without its escape sequences,  *)
(* and a newline.                                                          *)
FileLine(level, m) ==
  <<91>> \o DateText \o <<93, 32>> \o LabelOf(level) \o <<58, 32>> \o strip_format(m)
    \o <<10>>

Newlines(s) == Cardinality({i \in 1..Len(s) : s[i] = 10})

(* s is exactly one line: its only newline is its last element. *)
OneLine(s) == Len(s) >= 1 /\ s[Len(s)] = 10 /\ Newlines(s) = 1

(* The file's content before the step is a prefix of its content after. *)
ContentKept ==
  /\ Len(logs'.content) >= Len(logs.content)
  /\ SubSeq(logs'.content, 1, Len(logs.content)) = logs.content

(* What the step added at the end of the file. *)
Appended == SubSeq(logs'.content, Len(logs.content) + 1, Len(logs'.content))

FieldsKept == UNCHANGED <<log_level, log_to_file, date>>

-----------------------------------------------------------------------------
(* C1: with mirroring on, the text an emit call of severity S with message *)
(* m appends to the file is "[dd/mm/yyyy] LEVEL: m" (the console line of   *)
(* the call without its escape sequences) and a newline.                   *)
C1_FileLineIsStrippedConsoleLine ==
  [][EmitCall /\ log_to_file =>
       /\ ContentKept
       /\ Appended = FileLine(SeverityOf(last'.op), last'.msg)
       /\ Appended = strip_format(ConsoleLine(SeverityOf(last'.op), last'.msg)) \o <<10>>
    ]_vars

(* C2, as claimed: with mirroring on, every emit call creates the file if  *)
(* absent, keeps what the file held and appends exactly one                *)
(* newline-terminated line at its end.                                     *)
C2_AppendsExactlyOneLine ==
  [][EmitCall /\ log_to_file =>
       logs'.exists /\ ContentKept /\ OneLine(Appended)]_vars

(* C2, amended: with mirroring on, every emit call creates the file if     *)
(* absent, keeps what the file held and appends at its end a               *)
(* newline-terminated text of 1 + n lines, n the number of line breaks in  *)
(* the message: exactly one line when the message has no line break.       *)
C2_AppendsOneLinePerMessageLine ==
  [][EmitCall /\ log_to_file =>
       /\ logs'.exists
       /\ ContentKept
       /\ Len(Appended) >= 1
       /\ Appended[Len(Appended)] = 10
       /\ Newlines(Appended) = 1 + Newlines(last'.msg)
       /\ Newlines(last'.msg) = 0 => OneLine(Appended)
    ]_vars

(* error("a") then error("b") on an absent file: two lines, a's first. *)
C2_Witness ==
  /\ last.op = "error"
  /\ last.msg = <<98>>
  /\ last.before.log_to_file
  /\ last.before.logs = [exists |-> TRUE, content |-> <<97, 10>>]
  /\ logs = [exists |-> TRUE, content |-> <<97, 10, 98, 10>>]
  /\ Len(stdout) = 4
  /\ stdout[1] = ConsoleLine("Error", <<97>>) \o <<10>>

(* C3: with mirroring off, no emit call creates the file or changes its    *)
(* content.                                                                *)
C3_NoFileWhenMirroringOff ==
  [][last'.op \in EmitOps /\ ~log_to_file => logs' = logs]_vars

(* An emit call made with mirroring off has written to the console and     *)
(* there is still no file.                                                 *)
C3_Witness ==
  /\ last.op \in EmitOps
  /\ ~last.before.log_to_file
  /\ ~last.before.logs.exists
  /\ ~logs.exists
  /\ Len(stdout) = 2

(* C4: with the current severity S one of the three levels, log(m) has the *)
(* effects of the method for S called with m: the same console writes, the *)
(* same file, the same outcome, the same fields.                           *)
C4_LogIsMethodOfCurrentSeverity ==
  [][last'.op = "log" /\ log_level \in LogLevel =>
       LET r == CASE log_level = "Info" -> info(last'.msg, last'.io, 0)
                  [] log_level = "Warning" -> warning(last'.msg, last'.io, 0)
                  [] log_level = "Error" -> error(last'.msg, last'.io, 0)
       IN /\ stdout' = r.stdout
          /\ logs' = r.logs
          /\ last'.raised = r.raised
          /\ last'.opens = r.opens
          /\ FieldsKept
    ]_vars

(* log(m) at severity Warning with mirroring on has written what           *)
(* warning(m) writes.                                                      *)
C4_Witness ==
  /\ last.op = "log"
  /\ last.before.log_level = "Warning"
  /\ last.before.log_to_file
  /\ Len(stdout) = 2
  /\ stdout = ConsoleWrites("Warning", last.msg)
  /\ logs.exists

(* C5: the current severity is always the one established by the most      *)
(* recent of construction, a successful set_level and reset (Info); no     *)
(* other call changes it; and log emits at that severity.                  *)
C5_LogEmitsAtEstablishedSeverity ==
  [][/\ log_level' = established'
     /\ last'.op \notin {"set_level", "reset"} => log_level' = log_level
     /\ last'.op = "reset" => log_level' = "Info"
     /\ last'.op = "set_level" /\ last'.raised = "None" => log_level' = last'.level
     /\ last'.op = "log" /\ established \in LogLevel =>
          stdout' = stdout \o ConsoleWrites(established, last'.msg)
    ]_vars

(* reset() has been called on a logger whose severity was Error. *)
C5_Witness ==
  /\ last.op = "reset"
  /\ last.before.log_level = "Error"
  /\ log_level = "Info"
  /\ established = "Info"

(* C6: set_level with a value that is none of the three levels raises      *)
(* ValueError and changes neither the severity nor the mirroring flag nor  *)
(* the file; a log() that follows emits at the severity held before.       *)
C6_InvalidLevelRejected ==
  [][/\ last'.op = "set_level" /\ last'.level \notin LogLevel =>
          /\ last'.raised = "ValueError"
          /\ UNCHANGED <<log_level, log_to_file, date, logs, stdout, established>>
     /\ (last.op = "set_level" /\ last.raised = "ValueError" /\ last'.op = "log"
           /\ last.before.log_level \in LogLevel) =>
          stdout' = stdout \o ConsoleWrites(last.before.log_level, last'.msg)
    ]_vars

(* set_level has rejected a value on a logger whose severity is Warning. *)
C6_Witness ==
  /\ last.op = "set_level"
  /\ last.level \in Untyped
  /\ last.raised = "ValueError"
  /\ last.before.log_level = "Warning"
  /\ log_level = "Warning"

(* The parts of C7 that do not speak of lines: clean_logs never raises,    *)
(* leaves the file absent and the fields as they were; no other call       *)
(* removes the file or anything in it.                                     *)
C7_Removal ==
  /\ last'.op = "clean_logs" =>
       /\ last'.raised = "None"
       /\ ~logs'.exists
       /\ logs'.content = <<>>
       /\ FieldsKept
  /\ last'.op # "clean_logs" =>
       /\ logs.exists => logs'.exists
       /\ ContentKept

(* C7, as claimed: C7_Removal, and the emit call with mirroring on that    *)
(* follows clean_logs recreates the file, which then holds exactly that    *)
(* call's single line.                                                     *)
C7_RecreatedWithSingleLine ==
  [][/\ C7_Removal
     /\ last.op = "clean_logs" /\ EmitCall /\ log_to_file =>
          logs'.exists /\ OneLine(logs'.content)
    ]_vars

(* C7, amended: C7_Removal, and the emit call with mirroring on that       *)
(* follows clean_logs recreates the file, which then holds exactly what    *)
(* that call appends: a newline-terminated text of 1 + n lines, n the      *)
(* number of line breaks in the message (a single line when there is       *)
(* none).                                                                  *)
C7_RecreatedWithCallText ==
  [][/\ C7_Removal
     /\ last.op = "clean_logs" /\ EmitCall /\ log_to_file =>
          /\ logs'.exists
          /\ logs'.content = Appended
          /\ logs'.content[Len(logs'.content)] = 10
          /\ Newlines(logs'.content) = 1 + Newlines(last'.msg)
          /\ Newlines(last'.msg) = 0 => OneLine(logs'.content)
    ]_vars

(* clean_logs has removed an existing file. *)
C7_Witness ==
  /\ last.op = "clean_logs"
  /\ last.before.logs.exists
  /\ ~logs.exists

(* C8: info, warning and error each make two console writes: the line      *)
(* {color}{bold}[date] {LEVEL}:{reset}{color} {message} with the colour    *)
(* and label of the method called, whatever the current severity, then a   *)
(* line holding only the reset code.                                       *)
C8_TwoConsoleWritesOfTheMethod ==
  [][last'.op \in {"info", "warning", "error"} =>
       stdout' = stdout \o ConsoleWrites(SeverityOf(last'.op), last'.msg)]_vars

(* error(m) on a logger whose severity is Info has written the red ERROR   *)
(* line and the reset line.                                                *)
C8_Witness ==
  /\ last.op = "error"
  /\ last.before.log_level = "Info"
  /\ log_level = "Info"
  /\ stdout = ConsoleWrites("Error", last.msg)

(* C9: when, with mirroring on, opening or writing the file fails during   *)
(* an emit call, the call raises that error, has opened the file once, and *)
(* leaves the severity and the mirroring flag as they were.                *)
C9_FileFailurePropagates ==
  [][last'.op \in EmitOps /\ last'.io \in {"open_fail", "write_fail"} =>
       /\ log_to_file
       /\ last'.raised = "FileError"
       /\ last'.opens = 1
       /\ FieldsKept
    ]_vars

(* A failed write during log() has surfaced as the call's error. *)
C9_Witness ==
  /\ last.op = "log"
  /\ last.io = "write_fail"
  /\ last.before.log_to_file
  /\ last.raised = "FileError"

(* C10: in an emit call with mirroring on the file comes first: a call     *)
(* whose file operation fails writes nothing to the console, and whenever  *)
(* the console was written or failed, the call's text is already in the    *)
(* file.                                                                   *)
C10_FileBeforeConsole ==
  [][EmitCall /\ log_to_file =>
       /\ last'.raised = "FileError" => stdout' = stdout
       /\ last'.io \in {"open_fail", "write_fail"} => stdout' = stdout
       /\ stdout' # stdout \/ last'.raised = "ConsoleError" =>
            /\ logs'.exists
            /\ logs'.content = logs.content \o strip_format(last'.msg) \o <<10>>
    ]_vars

(* The first print of an emit call failed after the file was written. *)
C10_Witness ==
  /\ last.op \in EmitOps
  /\ last.io = "print1_fail"
  /\ last.before.log_to_file
  /\ last.raised = "ConsoleError"
  /\ stdout = <<>>
  /\ logs.content = last.before.logs.content \o strip_format(last.msg) \o <<10>>

====
